---- MODULE Spec2Model ----
(***************************************************************************)
(* Model of src/main.rs: a PNG is decoded into an Image (Info + bytes),    *)
(* one transform of the table `funcs` is selected by number and applied,   *)
(* and the result is written.                                              *)
(*                                                                         *)
(* The program computes with f64 in to_grayscale, in the Otsu score and in *)
(* the HSV conversions.  TLC has 32-bit integers only, so f64 values are   *)
(* modelled exactly: a finite double is [neg, m, e] with value            *)
(* (-1)^neg * m * 2^e, m an arbitrary-precision natural held as a sequence *)
(* of 15-bit limbs (least significant first) of at most 53 bits, and every *)
(* arithmetic operation rounds to nearest, ties to even, as IEEE 754 does. *)
(***************************************************************************)
EXTENDS Integers, Sequences, FiniteSets, TLC

(***************************************************************************)
(* Arbitrary-precision naturals                                            *)
(***************************************************************************)
LimbBits == 15
LimbBase == 32768

RECURSIVE Pow2(_)
Pow2(k) == IF k = 0 THEN 1 ELSE 2 * Pow2(k - 1)

RECURSIVE IntBitLen(_)
IntBitLen(n) == IF n = 0 THEN 0 ELSE 1 + IntBitLen(n \div 2)

RECURSIVE BigNorm(_)
BigNorm(a) ==
    IF a = << >> THEN a
    ELSE IF a[Len(a)] = 0 THEN BigNorm(SubSeq(a, 1, Len(a) - 1)) ELSE a

RECURSIVE BigFromInt(_)
BigFromInt(n) ==
    IF n = 0 THEN << >> ELSE <<n % LimbBase>> \o BigFromInt(n \div LimbBase)

RECURSIVE BigToInt(_)
BigToInt(a) == IF a = << >> THEN 0 ELSE a[1] + LimbBase * BigToInt(Tail(a))

BigLimb(a, i) == IF i <= Len(a) THEN a[i] ELSE 0

RECURSIVE BigCmpFrom(_, _, _)
BigCmpFrom(a, b, i) ==
    IF i = 0 THEN 0
    ELSE IF a[i] < b[i] THEN -1
    ELSE IF a[i] > b[i] THEN 1
    ELSE BigCmpFrom(a, b, i - 1)

BigCmp(a, b) ==
    IF Len(a) < Len(b) THEN -1
    ELSE IF Len(a) > Len(b) THEN 1
    ELSE BigCmpFrom(a, b, Len(a))

RECURSIVE BigAddFrom(_, _, _, _)
BigAddFrom(a, b, i, carry) ==
    IF i > Len(a) /\ i > Len(b)
    THEN (IF carry = 0 THEN << >> ELSE <<carry>>)
    ELSE LET s == BigLimb(a, i) + BigLimb(b, i) + carry
         IN  <<s % LimbBase>> \o BigAddFrom(a, b, i + 1, s \div LimbBase)

BigAdd(a, b) == BigNorm(BigAddFrom(a, b, 1, 0))

RECURSIVE BigSubFrom(_, _, _, _)
BigSubFrom(a, b, i, borrow) ==
    IF i > Len(a) THEN << >>
    ELSE LET d == a[i] - BigLimb(b, i) - borrow
         IN  IF d < 0 THEN <<d + LimbBase>> \o BigSubFrom(a, b, i + 1, 1)
                      ELSE <<d>> \o BigSubFrom(a, b, i + 1, 0)

\* a - b, for a >= b
BigSub(a, b) == BigNorm(BigSubFrom(a, b, 1, 0))

RECURSIVE BigMulSmallFrom(_, _, _, _)
BigMulSmallFrom(a, k, i, carry) ==
    IF i > Len(a) THEN (IF carry = 0 THEN << >> ELSE <<carry>>)
    ELSE LET p == a[i] * k + carry
         IN  <<p % LimbBase>> \o BigMulSmallFrom(a, k, i + 1, p \div LimbBase)

\* a * k, for 0 <= k < LimbBase
BigMulSmall(a, k) == IF k = 0 THEN << >> ELSE BigMulSmallFrom(a, k, 1, 0)

RECURSIVE BigMulFrom(_, _, _)
BigMulFrom(a, b, i) ==
    IF i > Len(b) THEN << >>
    ELSE BigAddFrom(BigMulSmall(a, b[i]), <<0>> \o BigMulFrom(a, b, i + 1), 1, 0)

BigMul(a, b) == BigNorm(BigMulFrom(a, b, 1))

BigShlLimbs(a, k) == IF a = << >> THEN a ELSE [i \in 1..k |-> 0] \o a

\* a * 2^k
BigShl(a, k) == BigShlLimbs(BigMulSmall(a, Pow2(k % LimbBits)), k \div LimbBits)

RECURSIVE BigDivSmallFrom(_, _, _, _)
BigDivSmallFrom(a, d, i, rem) ==
    IF i = 0 THEN [q |-> << >>, r |-> rem]
    ELSE LET cur  == rem * LimbBase + a[i]
             rest == BigDivSmallFrom(a, d, i - 1, cur % d)
         IN  [q |-> rest.q \o <<cur \div d>>, r |-> rest.r]

\* quotient and remainder of a by d, for 0 < d < LimbBase
BigDivSmall(a, d) ==
    LET res == BigDivSmallFrom(a, d, Len(a), 0)
    IN  [q |-> BigNorm(res.q), r |-> BigFromInt(res.r)]

\* floor(a / 2^k)
BigShr(a, k) ==
    LET l == k \div LimbBits
    IN  IF l >= Len(a) THEN << >>
        ELSE BigDivSmall(SubSeq(a, l + 1, Len(a)), Pow2(k % LimbBits)).q

\* a mod 2^k
BigLowBits(a, k) ==
    LET l == k \div LimbBits
    IN  IF l >= Len(a) THEN a
        ELSE BigNorm(SubSeq(a, 1, l) \o <<a[l + 1] % Pow2(k % LimbBits)>>)

BigBitLen(a) ==
    IF a = << >> THEN 0
    ELSE LimbBits * (Len(a) - 1) + IntBitLen(a[Len(a)])

\* bit i of a, bit 0 the least significant
BigBit(a, i) == (BigLimb(a, (i \div LimbBits) + 1) \div Pow2(i % LimbBits)) % 2

RECURSIVE BigDigit(_, _, _, _)
\* the largest digit d >= c, built from bits j..0, with b * d <= r
BigDigit(r, b, j, c) ==
    IF j < 0 THEN c
    ELSE IF BigCmp(BigMulSmall(b, c + Pow2(j)), r) <= 0
         THEN BigDigit(r, b, j - 1, c + Pow2(j))
         ELSE BigDigit(r, b, j - 1, c)

RECURSIVE BigDivModFrom(_, _, _, _)
BigDivModFrom(a, b, i, rem) ==
    IF i = 0 THEN [q |-> << >>, r |-> rem]
    ELSE LET cur  == BigNorm(<<a[i]>> \o rem)
             d    == BigDigit(cur, b, LimbBits - 1, 0)
             rest == BigDivModFrom(a, b, i - 1, BigSub(cur, BigMulSmall(b, d)))
         IN  [q |-> rest.q \o <<d>>, r |-> rest.r]

BigNormQuot(res) == [q |-> BigNorm(res.q), r |-> res.r]

\* quotient and remainder of a by b, for b > 0
BigDivMod(a, b) ==
    IF Len(b) = 1 THEN BigDivSmall(a, b[1])
    ELSE BigNormQuot(BigDivModFrom(a, b, Len(a), << >>))

(***************************************************************************)
(* f64                                                                     *)
(***************************************************************************)
F64Bits == 53

F64Zero == [neg |-> FALSE, m |-> << >>, e |-> 0]

F64Make(neg, m, e) ==
    IF m = << >> THEN F64Zero ELSE [neg |-> neg, m |-> m, e |-> e]

\* hi * 2^e rounded up or not: c compares the bits dropped below hi with
\* one half, and a tie goes to the even mantissa
F64RoundHalf(neg, hi, c, e, sticky) ==
    F64Make(neg,
            IF c > 0 \/ (c = 0 /\ (sticky \/ BigBit(hi, 0) = 1))
            THEN BigAdd(hi, <<1>>) ELSE hi,
            e)

\* m * 2^e with the s low bits of m rounded away
F64RoundAt(neg, m, e, sticky, s) ==
    F64RoundHalf(neg, BigShr(m, s),
                 BigCmp(BigLowBits(m, s), BigShl(<<1>>, s - 1)), e + s, sticky)

\* The double nearest to m * 2^e (plus, when sticky, a positive amount below
\* one unit of m): round to nearest, ties to even.
F64Round(neg, m, e, sticky) ==
    IF BigBitLen(m) <= F64Bits THEN F64Make(neg, m, e)
    ELSE F64RoundAt(neg, m, e, sticky, BigBitLen(m) - F64Bits)

\* `n as f64`, for an integer 0 <= n < 2^31
F64FromInt(n) == F64Make(FALSE, BigFromInt(n), 0)

F64Neg(a) == F64Make(~a.neg, a.m, a.e)

F64Abs(a) == F64Make(FALSE, a.m, a.e)

MinInt(x, y) == IF x < y THEN x ELSE y

\* the two mantissas over the common exponent MinInt(a.e, b.e)
F64AlignL(a, b) == BigShl(a.m, a.e - MinInt(a.e, b.e))
F64AlignR(a, b) == BigShl(b.m, b.e - MinInt(a.e, b.e))

\* x * 2^e0 with the sign na plus y * 2^e0 with the sign nb; equal
\* magnitudes of opposite signs cancel to +0
F64AddAligned(na, nb, x, y, e0) ==
    F64Round(IF na = nb \/ BigCmp(x, y) >= 0 THEN na ELSE nb,
             IF na = nb THEN BigAdd(x, y)
             ELSE IF BigCmp(x, y) >= 0 THEN BigSub(x, y)
             ELSE BigSub(y, x),
             e0, FALSE)

\* a + b
F64Add(a, b) ==
    IF a.m = << >> THEN b
    ELSE IF b.m = << >> THEN a
    ELSE F64AddAligned(a.neg, b.neg, F64AlignL(a, b), F64AlignR(a, b),
                       MinInt(a.e, b.e))

\* a - b
F64Sub(a, b) == F64Add(a, F64Neg(b))

\* a * b
F64Mul(a, b) ==
    F64Round(a.neg # b.neg, BigMul(a.m, b.m), a.e + b.e, FALSE)

MaxInt(x, y) == IF x > y THEN x ELSE y

\* the quotient dm.q * 2^e, sticky when the division left a remainder
F64DivRound(neg, dm, e) == F64Round(neg, dm.q, e, dm.r # << >>)

\* a / b from the integer quotient of a.m * 2^k by b.m
F64DivAt(a, b, k) ==
    F64DivRound(a.neg # b.neg, BigDivMod(BigShl(a.m, k), b.m), a.e - b.e - k)

\* a / b, for b # 0: the quotient is taken with F64Bits + 2 bits at least
F64Div(a, b) ==
    IF a.m = << >> THEN F64Zero
    ELSE F64DivAt(a, b, MaxInt(F64Bits + 2 + BigBitLen(b.m) - BigBitLen(a.m), 0))

\* a % b (the exact remainder, with the sign of a), for b # 0
F64Rem(a, b) ==
    IF a.m = << >> THEN F64Zero
    ELSE F64Round(a.neg, BigDivMod(F64AlignL(a, b), F64AlignR(a, b)).r,
                  MinInt(a.e, b.e), FALSE)

\* the order of two doubles of the sign neg whose magnitudes compare as c
F64CmpSigned(neg, c) == IF neg THEN -c ELSE c

\* partial_cmp of two finite doubles: -1, 0 or 1
F64Cmp(a, b) ==
    IF a.m = << >> /\ b.m = << >> THEN 0
    ELSE IF a.m = << >> THEN (IF b.neg THEN 1 ELSE -1)
    ELSE IF b.m = << >> THEN (IF a.neg THEN -1 ELSE 1)
    ELSE IF a.neg /\ ~b.neg THEN -1
    ELSE IF ~a.neg /\ b.neg THEN 1
    ELSE F64CmpSigned(a.neg, BigCmp(F64AlignL(a, b), F64AlignR(a, b)))

\* `x as u8`: truncation toward zero, saturating at 0 and 255
F64ToU8(x) ==
    IF x.neg \/ x.m = << >> THEN 0
    ELSE IF BigBitLen(x.m) + x.e > 8 THEN 255
    ELSE IF x.e >= 0 THEN BigToInt(BigShl(x.m, x.e))
    ELSE BigToInt(BigShr(x.m, -x.e))

\* a decimal literal num/den: the double nearest to its value
F64Lit(num, den) == F64Div(F64FromInt(num), F64FromInt(den))

(***************************************************************************)
(* Values of the program                                                   *)
(***************************************************************************)
\* a panic (failed assert!, expect or unreachable!) carries its message
Panic(message) == [panic |-> message]

IsPanic(x) == "panic" \in DOMAIN x

\* struct Info
Info(width, height, color, depth) ==
    [width |-> width, height |-> height, color |-> color, depth |-> depth]

\* struct Image
Image(info, bytes) == [info |-> info, bytes |-> bytes]

\* struct HSV
HSV(h, s, v) == [h |-> h, s |-> s, v |-> v]

F64Of255 == F64FromInt(255)
F64Of60  == F64FromInt(60)
F64Of180 == F64FromInt(180)
F64Of300 == F64FromInt(300)
F64Of360 == F64FromInt(360)
F64One   == F64FromInt(1)
F64Two   == F64FromInt(2)

\* one step of the reduce of max_by: the accumulator a is kept only when
\* it compares Greater
F64Max(a, b) == IF F64Cmp(a, b) > 0 THEN a ELSE b

\* one step of the reduce of min_by: the accumulator a is dropped only when
\* it compares Greater
F64Min(a, b) == IF F64Cmp(a, b) > 0 THEN b ELSE a

\* Iterator::max_by over three values: the last of the greatest
F64Max3(a, b, c) == F64Max(F64Max(a, b), c)

\* Iterator::min_by over three values: the first of the least
F64Min3(a, b, c) == F64Min(F64Min(a, b), c)

\* (lo..hi).contains(&x)
F64InRange(x, lo, hi) == F64Cmp(lo, x) <= 0 /\ F64Cmp(x, hi) < 0

\* (lo..=hi).contains(&x)
F64InRangeIncl(x, lo, hi) == F64Cmp(lo, x) <= 0 /\ F64Cmp(x, hi) <= 0

Unreachable == "internal error: entered unreachable code"

\* `let h = if s == 0. {..}` of HSV::from_rgb: the hue, or the panic of
\* unreachable!()
from_rgb_h(r, g, b, v_min, s) ==
    IF s = F64Zero THEN F64Zero
    ELSE IF F64Cmp(b, v_min) = 0
    THEN F64Add(F64Mul(F64Of60, F64Div(F64Sub(g, r), s)), F64Of60)
    ELSE IF F64Cmp(r, v_min) = 0
    THEN F64Add(F64Mul(F64Of60, F64Div(F64Sub(b, g), s)), F64Of180)
    ELSE IF F64Cmp(g, v_min) = 0
    THEN F64Add(F64Mul(F64Of60, F64Div(F64Sub(r, b), s)), F64Of300)
    ELSE Panic(Unreachable)

\* the three assert! of HSV::from_rgb and its result
from_rgb_asserts(h, s, v) ==
    IF IsPanic(h) THEN h
    ELSE IF ~F64InRange(h, F64Zero, F64Of360)
    THEN Panic("assertion failed: (0.0..360.0).contains(&h)")
    ELSE IF ~F64InRangeIncl(s, F64Zero, F64One)
    THEN Panic("assertion failed: (0.0..=1.0).contains(&s)")
    ELSE IF ~F64InRangeIncl(v, F64Zero, F64One)
    THEN Panic("assertion failed: (0.0..=1.0).contains(&v)")
    ELSE HSV(h, s, v)

\* HSV::from_rgb from `let h` on
from_rgb_s(r, g, b, v, v_min, s) ==
    from_rgb_asserts(from_rgb_h(r, g, b, v_min, s), s, v)

\* HSV::from_rgb from `let s` on
from_rgb_v(r, g, b, v, v_min) == from_rgb_s(r, g, b, v, v_min, F64Sub(v, v_min))

\* HSV::from_rgb from `let v` on, colors being [r, g, b]
from_rgb_colors(r, g, b) ==
    from_rgb_v(r, g, b, F64Max3(r, g, b), F64Min3(r, g, b))

\* HSV::from_rgb: an HSV, or a panic
from_rgb(r8, g8, b8) ==
    from_rgb_colors(F64Div(F64FromInt(r8), F64Of255),
                    F64Div(F64FromInt(g8), F64Of255),
                    F64Div(F64FromInt(b8), F64Of255))

\* some item is a panic
HasPanic(items) == \E k \in 1..Len(items) : IsPanic(items[k])

\* the panic a map over items stops at
FirstPanic(items) ==
    items[CHOOSE k \in 1..Len(items) :
             IsPanic(items[k]) /\ \A j \in 1..(k - 1) : ~IsPanic(items[j])]

\* `let x` of HSV::into_rgb
into_rgb_x(s, h_prime) ==
    F64Mul(s, F64Sub(F64One, F64Abs(F64Sub(F64Rem(h_prime, F64Two), F64One))))

\* `let rgb_float = match h_prime {..}`: [list |-> the array], or the panic
\* of unreachable!()
into_rgb_match(h_prime, s, x, z) ==
    IF F64Cmp(h_prime, F64FromInt(1)) < 0 THEN [list |-> <<s, x, z>>]
    ELSE IF F64Cmp(h_prime, F64FromInt(2)) < 0 THEN [list |-> <<x, s, z>>]
    ELSE IF F64Cmp(h_prime, F64FromInt(3)) < 0 THEN [list |-> <<z, s, x>>]
    ELSE IF F64Cmp(h_prime, F64FromInt(4)) < 0 THEN [list |-> <<z, x, s>>]
    ELSE IF F64Cmp(h_prime, F64FromInt(5)) < 0 THEN [list |-> <<x, z, s>>]
    ELSE IF F64Cmp(h_prime, F64FromInt(6)) < 0 THEN [list |-> <<s, z, x>>]
    ELSE Panic("internal error: entered unreachable code: h_prime should be [0, 6)")

\* the closure of rgb_float.map from its assert! on: [u8 |-> the byte], or
\* a panic
into_rgb_cast(modded) ==
    IF ~F64InRangeIncl(modded, F64Zero, F64One)
    THEN Panic("assertion failed: ((0.)..=(1.)).contains(&modded)")
    ELSE [u8 |-> F64ToU8(F64Mul(modded, F64Of255))]

\* the closure of rgb_float.map
into_rgb_modded(self, val) == into_rgb_cast(F64Add(val, F64Sub(self.v, self.s)))

\* the array rgb_float.map returns, or the panic it stops at
into_rgb_array(vals) ==
    IF HasPanic(vals) THEN FirstPanic(vals)
    ELSE [list |-> [i \in 1..3 |-> vals[i].u8]]

\* rgb_float.map(..)
into_rgb_map(self, rgb_float) ==
    IF IsPanic(rgb_float) THEN rgb_float
    ELSE into_rgb_array([i \in 1..3 |-> into_rgb_modded(self, rgb_float.list[i])])

\* HSV::into_rgb from `let x` on
into_rgb_h_prime(self, h_prime) ==
    into_rgb_map(self, into_rgb_match(h_prime, self.s,
                                      into_rgb_x(self.s, h_prime), F64Zero))

\* HSV::into_rgb: [list |-> the three bytes], or a panic
into_rgb(self) == into_rgb_h_prime(self, F64Div(self.h, F64Of60))

\* fn diff
diff(a, b) == IF a > b THEN a - b ELSE b - a

\* the chunk closure of to_grayscale: the luma of one pixel, cast to u8
Luma(r, g, b) ==
    F64ToU8(F64Add(F64Add(F64Mul(F64Lit(2126, 10000), F64FromInt(r)),
                          F64Mul(F64Lit(7152, 10000), F64FromInt(g))),
                   F64Mul(F64Lit(722, 10000), F64FromInt(b))))

ColorIsNotRgb == "assertion failed: img.info.color == Rgb"
ColorIsNotGrayscale == "assertion failed: img.info.color == Grayscale"
LenIsNotTriples == "assertion failed: bytes.len() % 3 == 0"

\* to_grayscale returning the Info of its input unchanged
to_grayscale_same_info(img) ==
    IF img.info.color # "Rgb" THEN Panic(ColorIsNotRgb)
    ELSE IF Len(img.bytes) % 3 # 0 THEN Panic(LenIsNotTriples)
    ELSE Image(img.info,
               [k \in 1..(Len(img.bytes) \div 3) |->
                   Luma(img.bytes[3 * k - 2], img.bytes[3 * k - 1], img.bytes[3 * k])])

\* fn to_grayscale
to_grayscale(img) ==
    IF img.info.color # "Rgb" THEN Panic(ColorIsNotRgb)
    ELSE IF Len(img.bytes) % 3 # 0 THEN Panic(LenIsNotTriples)
    ELSE Image([img.info EXCEPT !.color = "Grayscale"],
               [k \in 1..(Len(img.bytes) \div 3) |->
                   Luma(img.bytes[3 * k - 2], img.bytes[3 * k - 1], img.bytes[3 * k])])

\* binarize with the two branches of its closure exchanged
binarize_exchanged(img, threshold) ==
    IF img.info.color # "Grayscale" THEN Panic(ColorIsNotGrayscale)
    ELSE Image(img.info,
               [k \in 1..Len(img.bytes) |->
                   IF img.bytes[k] < threshold THEN 255 ELSE 0])

\* fn binarize
binarize(img, threshold) ==
    IF img.info.color # "Grayscale" THEN Panic(ColorIsNotGrayscale)
    ELSE Image(img.info,
               [k \in 1..Len(img.bytes) |->
                   IF img.bytes[k] < threshold THEN 0 ELSE 255])

\* what collect() returns: [list |-> the items], or the first panic
Collect(items) ==
    IF HasPanic(items) THEN FirstPanic(items) ELSE [list |-> items]

\* fn rgb_to_hsv: a sequence of HSV, or the first panic of from_rgb
rgb_to_hsv(rgb_bytes) ==
    IF Len(rgb_bytes) % 3 # 0 THEN Panic(LenIsNotTriples)
    ELSE Collect([k \in 1..(Len(rgb_bytes) \div 3) |->
                     from_rgb(rgb_bytes[3 * k - 2], rgb_bytes[3 * k - 1],
                              rgb_bytes[3 * k])])

\* flatten() over the arrays of into_rgb
FlattenArrays(rgbs) ==
    IF IsPanic(rgbs) THEN rgbs
    ELSE [list |-> [i \in 1..(3 * Len(rgbs.list)) |->
                       rgbs.list[(i + 2) \div 3].list[((i - 1) % 3) + 1]]]

\* fn hsv_to_rgb: the bytes, or the first panic of into_rgb
hsv_to_rgb(hsvs) ==
    FlattenArrays(Collect([k \in 1..Len(hsvs) |-> into_rgb(hsvs[k])]))

(***************************************************************************)
(* The Otsu search of funcs[4]                                             *)
(***************************************************************************)
RECURSIVE SetSum(_, _)
SetSum(S, f) ==
    IF S = {} THEN 0
    ELSE LET i == CHOOSE j \in S : TRUE IN f[i] + SetSum(S \ {i}, f)

\* histo[lo..hi].into_iter().sum(); the empty bins add nothing
SumRange(histo, lo, hi) == SetSum({i \in lo..(hi - 1) : histo[i] # 0}, histo)

\* histo[lo..hi].into_iter().zip(lo..hi).map(|(x, y)| x * y).sum()
MulSumRange(histo, lo, hi) ==
    SetSum({i \in lo..(hi - 1) : histo[i] # 0}, [i \in lo..(hi - 1) |-> histo[i] * i])

\* the histogram block of funcs[4]
Histo(bytes) ==
    [i \in 0..255 |-> Cardinality({k \in 1..Len(bytes) : bytes[k] = i})]

NoSplit == [some |-> FALSE]

\* the separation score of a split with non-empty classes
Score(sum_l, sum_r, mulsum_l, mulsum_r) ==
    LET d == F64FromInt(diff(sum_l * mulsum_r, sum_r * mulsum_l))
    IN  F64Div(F64Mul(d, d), F64FromInt(sum_l * sum_r))

\* the map closure of the search: Some((n, res)) or None
Split(histo, n) ==
    LET sum_l    == SumRange(histo, 0, n)
        sum_r    == SumRange(histo, n, 256)
        mulsum_l == MulSumRange(histo, 0, n)
        mulsum_r == MulSumRange(histo, n, 255)
        summul   == sum_l * sum_r
    IN  IF summul # 0
        THEN [some |-> TRUE, n |-> n, res |-> Score(sum_l, sum_r, mulsum_l, mulsum_r)]
        ELSE NoSplit

\* filter(Option::is_some).flatten() on one Option
Flattened(c) == IF c.some THEN <<c>> ELSE << >>

\* (lo..=hi).map(..).filter(Option::is_some).flatten(), in ascending n
RECURSIVE Splits(_, _, _)
Splits(histo, lo, hi) ==
    IF lo > hi THEN << >>
    ELSE IF lo = hi THEN Flattened(Split(histo, lo))
    ELSE Splits(histo, lo, (lo + hi) \div 2)
            \o Splits(histo, (lo + hi) \div 2 + 1, hi)

FoldChunk == 16

\* a reduce that keeps the accumulator also when the next item is Equal
RECURSIVE MaxByFromKeepFirst(_, _, _, _)
MaxByFromKeepFirst(items, i, last, acc) ==
    IF i > last THEN acc
    ELSE IF F64Cmp(acc.res, items[i].res) >= 0
    THEN MaxByFromKeepFirst(items, i + 1, last, acc)
    ELSE MaxByFromKeepFirst(items, i + 1, last, items[i])

\* the reduce of Iterator::max_by over items[i..last]: the accumulator is
\* kept only when it compares Greater than the next item
RECURSIVE MaxByFrom(_, _, _, _)
MaxByFrom(items, i, last, acc) ==
    IF i > last THEN acc
    ELSE IF F64Cmp(acc.res, items[i].res) > 0
    THEN MaxByFrom(items, i + 1, last, acc)
    ELSE MaxByFrom(items, i + 1, last, items[i])

\* the same left fold, taken FoldChunk items at a time
RECURSIVE MaxByChunks(_, _, _)
MaxByChunks(items, i, acc) ==
    IF i > Len(items) THEN acc
    ELSE MaxByChunks(items, i + FoldChunk,
                     MaxByFrom(items, i, MinInt(i + FoldChunk - 1, Len(items)), acc))

\* Iterator::max_by: None on an empty iterator
max_by(items) == IF items = << >> THEN NoSplit ELSE MaxByChunks(items, 2, items[1])

NoThreshold == "Failed to find threshold"

\* Option::expect: [best_thres |-> n] of Some((n, _)), a panic on None
Expect(best) ==
    IF best.some THEN [best_thres |-> best.n] ELSE Panic(NoThreshold)

\* the search over 0..255 in place of 0..=255
OtsuSearchExclusive(histo) == Expect(max_by(Splits(histo, 0, 254)))

\* the search with unwrap_or((0, 0.)) in place of expect
OtsuSearchOrZero(histo) ==
    LET best == max_by(Splits(histo, 0, 255))
    IN  IF best.some THEN [best_thres |-> best.n] ELSE [best_thres |-> 0]

\* the search of funcs[4] with its expect: [best_thres |-> n] or a panic
OtsuSearch(histo) == Expect(max_by(Splits(histo, 0, 255)))

(***************************************************************************)
(* The table funcs of main                                                 *)
(***************************************************************************)
\* funcs[0], identity
q0(img) == img

\* a swap that emits (g, b, r)
q1_rotate(img) ==
    IF img.info.color # "Rgb" THEN Panic(ColorIsNotRgb)
    ELSE IF Len(img.bytes) % 3 # 0 THEN Panic(LenIsNotTriples)
    ELSE Image(img.info,
               [i \in 1..Len(img.bytes) |->
                   img.bytes[3 * ((i - 1) \div 3) + 1 + (i % 3)]])

\* funcs[1], rgb -> bgr
q1(img) ==
    IF img.info.color # "Rgb" THEN Panic(ColorIsNotRgb)
    ELSE IF Len(img.bytes) % 3 # 0 THEN Panic(LenIsNotTriples)
    ELSE Image(img.info,
               [i \in 1..Len(img.bytes) |->
                   img.bytes[3 * ((i - 1) \div 3) + 3 - ((i - 1) % 3)]])

\* funcs[2]
q2(img) == to_grayscale(img)

FixedThreshold == 128

\* funcs[3] from its call of binarize on
q3_binarize(gray) == IF IsPanic(gray) THEN gray ELSE binarize(gray, FixedThreshold)

\* funcs[3]
q3(img) == q3_binarize(to_grayscale(img))

\* `best_thres as u8`
AsU8(n) == n % 256

\* funcs[4] binarizing at best_thres + 1
q4_binarize_next_level(gray, bins, found) ==
    IF IsPanic(found) THEN [ret |-> found, gray |-> gray, histo |-> bins]
    ELSE [ret |-> binarize(gray, AsU8(found.best_thres + 1)), gray |-> gray,
          histo |-> bins, best_thres |-> found.best_thres]

\* funcs[4] from the expect of the search on: the value returned (or the
\* panic), with the closure's locals
q4_binarize(gray, bins, found) ==
    IF IsPanic(found) THEN [ret |-> found, gray |-> gray, histo |-> bins]
    ELSE [ret |-> binarize(gray, AsU8(found.best_thres)), gray |-> gray,
          histo |-> bins, best_thres |-> found.best_thres]

\* funcs[4] from `let (best_thres, _)` on
q4_search(gray, bins) == q4_binarize(gray, bins, OtsuSearch(bins))

\* funcs[4] from `let histo` on
q4_histo(gray) ==
    IF IsPanic(gray) THEN [ret |-> gray] ELSE q4_search(gray, Histo(gray.bytes))

\* funcs[4], Otsu
q4(img) == q4_histo(to_grayscale(img))

\* the loop of funcs[5] on one sample
RotateHue(hsv) == HSV(F64Rem(F64Add(hsv.h, F64Of180), F64Of360), hsv.s, hsv.v)

\* funcs[5] from `Image { info: img.info, bytes }` on
q5_image(img, bytes) ==
    IF IsPanic(bytes) THEN bytes ELSE Image(img.info, bytes.list)

\* funcs[5] from its loop on
q5_loop(img, hsv_bytes) ==
    IF IsPanic(hsv_bytes) THEN hsv_bytes
    ELSE q5_image(img, hsv_to_rgb([k \in 1..Len(hsv_bytes.list) |->
                                      RotateHue(hsv_bytes.list[k])]))

\* funcs[5], invert H in HSV
q5(img) == q5_loop(img, rgb_to_hsv(img.bytes))

FuncsLen == 6

NoTrans == -1

\* a lookup that takes the length of the table for an index
funcs_get_le(n) == IF n <= FuncsLen THEN n ELSE NoTrans

\* funcs.get(num): the index of the entry, NoTrans for None
funcs_get(n) == IF n < FuncsLen THEN n ELSE NoTrans

\* a test that lets Sixteen through
DepthIsEightOrSixteen(info) == info.depth \in {"Eight", "Sixteen"}

\* the test of main on the bit depth
DepthIsSupported(info) == info.depth = "Eight"

(***************************************************************************)
(* Inputs                                                                  *)
(***************************************************************************)
MaxPixels == 3
MaxNum == 6
MaxBins == 3

ColorTypes == {"Rgb", "Grayscale", "Rgba"}
BitDepths == {"Eight", "Sixteen"}

\* samples per pixel of png::ColorType
Samples(color) == IF color = "Rgb" THEN 3 ELSE IF color = "Rgba" THEN 4 ELSE 1

\* bytes per sample of png::BitDepth
SampleBytes(depth) == IF depth = "Sixteen" THEN 2 ELSE 1

\* the pixels the decoded images are made of
PixelSamples(color, depth) ==
    IF depth = "Eight"
    THEN IF color = "Rgb" THEN {<<10, 20, 30>>, <<200, 100, 50>>, <<255, 255, 255>>}
         ELSE IF color = "Grayscale" THEN {<<0>>, <<128>>, <<255>>}
         ELSE {<<10, 20, 30, 255>>}
    ELSE IF color = "Rgb" THEN {<<0, 10, 0, 20, 0, 30>>}
         ELSE IF color = "Grayscale" THEN {<<0, 128>>}
         ELSE {<<0, 10, 0, 20, 0, 30, 255, 255>>}

Dims == {d \in (1..MaxPixels) \X (1..MaxPixels) : d[1] * d[2] <= MaxPixels}

\* the buffer of a sequence of pixels of k bytes each
Flatten(pixels, k) ==
    [i \in 1..(k * Len(pixels)) |-> pixels[((i - 1) \div k) + 1][((i - 1) % k) + 1]]

\* what read_input can return: the buffer has output_buffer_size() bytes
Inputs ==
    UNION {UNION {UNION {
        {Image(Info(d[1], d[2], color, depth),
               Flatten(pixels, Samples(color) * SampleBytes(depth))) :
            pixels \in [1..(d[1] * d[2]) -> PixelSamples(color, depth)]} :
        d \in Dims} : color \in ColorTypes} : depth \in BitDepths}

Inputs8 == {img \in Inputs : img.info.depth = "Eight"}

NumSamples == (0..MaxNum) \cup {99}

ThresholdSamples == {0, 1, 128, 129, 255}

LevelSamples == {0, 10, 100, 200, 254, 255}
CountSamples == {1, 100}

\* the histograms with at most MaxBins populated bins
HistoSamples ==
    UNION {{[i \in 0..255 |-> IF i \in levels THEN count[i] ELSE 0] :
               count \in [levels -> CountSamples]} :
           levels \in {L \in SUBSET LevelSamples : Cardinality(L) <= MaxBins}}

(***************************************************************************)
(* The run of main                                                         *)
(***************************************************************************)
VARIABLES
    pc,          \* the step main is at
    num,         \* args.num
    image,       \* the Image read_input returned
    trans,       \* the index of the entry funcs.get returned
    gray,        \* the local gray of funcs[4]
    histo,       \* the local histo of funcs[4]
    best_thres,  \* the local best_thres of funcs[4]
    out,         \* the Image the transform returned
    file,        \* the Image written to args.output
    msg,         \* the message of die! or of the panic
    calls        \* the applications of a function made so far, with their results

vars == <<pc, num, image, trans, gray, histo, best_thres, out, file, msg, calls>>

NoNum == -1
NoThres == -1
NoImage == Image(Info(0, 0, "None", "None"), << >>)
NoHisto == [i \in 0..255 |-> 0]

UsageMsg == "[input] [output] [func number]"
ReadFailedMsg == "[ERROR] failed to read input"
DepthMsg == "[ERROR] the only supported bit depth is 8"
NoFunctionMsg == "[ERROR] no function for number"
WriteFailedMsg == "[ERROR] failed to write output"

Call(fn, threshold, ret) == [fn |-> fn, threshold |-> threshold, ret |-> ret]

Init ==
    /\ pc = "read_args"
    /\ num = NoNum
    /\ image = NoImage
    /\ trans = NoTrans
    /\ gray = NoImage
    /\ histo = NoHisto
    /\ best_thres = NoThres
    /\ out = NoImage
    /\ file = NoImage
    /\ msg = ""
    /\ calls = << >>

\* read_args returns Args
ReadArgs ==
    /\ pc = "read_args"
    /\ \E n \in NumSamples : num' = n
    /\ pc' = "read_input"
    /\ UNCHANGED <<image, trans, gray, histo, best_thres, out, file, msg, calls>>

\* read_args dies: an argument is missing or num does not parse
ReadArgsDie ==
    /\ pc = "read_args"
    /\ pc' = "exit"
    /\ msg' = UsageMsg
    /\ UNCHANGED <<num, image, trans, gray, histo, best_thres, out, file, calls>>

\* read_input returns Ok
ReadInput ==
    /\ pc = "read_input"
    /\ \E img \in Inputs : image' = img
    /\ pc' = "check_depth"
    /\ UNCHANGED <<num, trans, gray, histo, best_thres, out, file, msg, calls>>

\* read_input returns Err
ReadInputDie ==
    /\ pc = "read_input"
    /\ pc' = "exit"
    /\ msg' = ReadFailedMsg
    /\ UNCHANGED <<num, image, trans, gray, histo, best_thres, out, file, calls>>

\* the bit depth is Eight
CheckDepth ==
    /\ pc = "check_depth"
    /\ DepthIsSupported(image.info)
    /\ pc' = "select"
    /\ UNCHANGED <<num, image, trans, gray, histo, best_thres, out, file, msg, calls>>

\* the bit depth is not Eight
CheckDepthDie ==
    /\ pc = "check_depth"
    /\ ~DepthIsSupported(image.info)
    /\ pc' = "exit"
    /\ msg' = DepthMsg
    /\ UNCHANGED <<num, image, trans, gray, histo, best_thres, out, file, calls>>

\* funcs.get(args.num) is Some
Select ==
    /\ pc = "select"
    /\ funcs_get(num) # NoTrans
    /\ trans' = funcs_get(num)
    /\ pc' = "apply"
    /\ UNCHANGED <<num, image, gray, histo, best_thres, out, file, msg, calls>>

\* funcs.get(args.num) is None
SelectDie ==
    /\ pc = "select"
    /\ funcs_get(num) = NoTrans
    /\ pc' = "exit"
    /\ msg' = NoFunctionMsg
    /\ UNCHANGED <<num, image, trans, gray, histo, best_thres, out, file, calls>>

\* `let out = trans(image)` returns ret, or panics with it
Return(fn, threshold, ret) ==
    /\ calls' = Append(calls, Call(fn, threshold, ret))
    /\ IF IsPanic(ret)
       THEN pc' = "panic" /\ msg' = ret.panic /\ out' = out
       ELSE pc' = "write" /\ msg' = msg /\ out' = ret

Q0 ==
    /\ pc = "apply" /\ trans = 0
    /\ Return("funcs[0]", NoThres, q0(image))
    /\ UNCHANGED <<num, image, trans, gray, histo, best_thres, file>>

Q1 ==
    /\ pc = "apply" /\ trans = 1
    /\ Return("funcs[1]", NoThres, q1(image))
    /\ UNCHANGED <<num, image, trans, gray, histo, best_thres, file>>

Q2 ==
    /\ pc = "apply" /\ trans = 2
    /\ Return("funcs[2]", NoThres, q2(image))
    /\ UNCHANGED <<num, image, trans, gray, histo, best_thres, file>>

Q3 ==
    /\ pc = "apply" /\ trans = 3
    /\ Return("funcs[3]", FixedThreshold, q3(image))
    /\ UNCHANGED <<num, image, trans, gray, histo, best_thres, file>>

Field(frame, name, default) == IF name \in DOMAIN frame THEN frame[name] ELSE default

Q4 ==
    /\ pc = "apply" /\ trans = 4
    /\ \E frame \in {q4(image)} :
          /\ gray' = Field(frame, "gray", gray)
          /\ histo' = Field(frame, "histo", histo)
          /\ best_thres' = Field(frame, "best_thres", best_thres)
          /\ Return("funcs[4]", Field(frame, "best_thres", NoThres), frame.ret)
    /\ UNCHANGED <<num, image, trans, file>>

Q5 ==
    /\ pc = "apply" /\ trans = 5
    /\ Return("funcs[5]", NoThres, q5(image))
    /\ UNCHANGED <<num, image, trans, gray, histo, best_thres, file>>

\* write_output returns Ok
WriteOutput ==
    /\ pc = "write"
    /\ file' = out
    /\ pc' = "done"
    /\ UNCHANGED <<num, image, trans, gray, histo, best_thres, out, msg, calls>>

\* write_output returns Err
WriteOutputDie ==
    /\ pc = "write"
    /\ pc' = "exit"
    /\ msg' = WriteFailedMsg
    /\ UNCHANGED <<num, image, trans, gray, histo, best_thres, out, file, calls>>

Next ==
    \/ ReadArgs \/ ReadArgsDie
    \/ ReadInput \/ ReadInputDie
    \/ CheckDepth \/ CheckDepthDie
    \/ Select \/ SelectDie
    \/ Q0 \/ Q1 \/ Q2 \/ Q3 \/ Q4 \/ Q5
    \/ WriteOutput \/ WriteOutputDie

Spec == Init /\ [][Next]_vars

(***************************************************************************)
(* funcs[1] applied repeatedly to one decoded image                        *)
(***************************************************************************)
InitFrom(start, inputs) ==
    /\ pc = start
    /\ num = NoNum
    /\ image \in inputs
    /\ out = image
    /\ trans = NoTrans
    /\ gray = NoImage
    /\ histo = NoHisto
    /\ best_thres = NoThres
    /\ file = NoImage
    /\ msg = ""
    /\ calls = << >>

\* one more application, to the result of the one before
Again(fn, threshold, ret) ==
    /\ pc = "apply"
    /\ Len(calls) < 2
    /\ calls' = Append(calls, Call(fn, threshold, ret))
    /\ IF IsPanic(ret)
       THEN pc' = "panic" /\ msg' = ret.panic /\ out' = out
       ELSE pc' = "apply" /\ msg' = msg /\ out' = ret
    /\ UNCHANGED <<num, image, trans, gray, histo, best_thres, file>>

InitSwap == InitFrom("apply", Inputs8)

SwapAgain == Again("funcs[1]", NoThres, q1(out))

NextSwap == SwapAgain

SpecSwap == InitSwap /\ [][NextSwap]_vars

(***************************************************************************)
(* binarize applied repeatedly to one decoded image                        *)
(***************************************************************************)
InitBinarize == InitFrom("apply", Inputs8)

BinarizeAgain == \E t \in ThresholdSamples : Again("binarize", t, binarize(out, t))

NextBinarize == BinarizeAgain

SpecBinarize == InitBinarize /\ [][NextBinarize]_vars

(***************************************************************************)
(* The Otsu search of funcs[4] on a given histogram                        *)
(***************************************************************************)
InitOtsu ==
    /\ pc = "search"
    /\ histo \in HistoSamples
    /\ num = NoNum
    /\ image = NoImage
    /\ out = NoImage
    /\ trans = NoTrans
    /\ gray = NoImage
    /\ best_thres = NoThres
    /\ file = NoImage
    /\ msg = ""
    /\ calls = << >>

\* the search returns best_thres
OtsuFound ==
    /\ pc = "search"
    /\ \E found \in {OtsuSearch(histo)} :
          /\ ~IsPanic(found)
          /\ best_thres' = found.best_thres
    /\ pc' = "done"
    /\ UNCHANGED <<num, image, trans, gray, histo, out, file, msg, calls>>

\* the expect of the search panics
OtsuNotFound ==
    /\ pc = "search"
    /\ \E found \in {OtsuSearch(histo)} :
          /\ IsPanic(found)
          /\ msg' = found.panic
    /\ pc' = "panic"
    /\ UNCHANGED <<num, image, trans, gray, histo, best_thres, out, file, calls>>

NextOtsu == OtsuFound \/ OtsuNotFound

SpecOtsu == InitOtsu /\ [][NextOtsu]_vars

(***************************************************************************)
(* Properties                                                              *)
(***************************************************************************)
\* 100 pixels at intensity 10 and 100 pixels at intensity 200
TwoClusters == [i \in 0..255 |-> IF i \in {10, 200} THEN 100 ELSE 0]

AtLeast(n) ==
    {m \in 0..255 : Split(histo, m).some
                    /\ F64Cmp(Split(histo, m).res, Split(histo, n).res) >= 0}

BothReturned == Len(calls) = 2 /\ ~IsPanic(calls[1].ret) /\ ~IsPanic(calls[2].ret)

\* C3 (as stated): binarizing at t and then at any t' <= t gives the buffer
\* of the first binarization.
C3_IdempotentBelow ==
    (BothReturned /\ calls[2].threshold <= calls[1].threshold)
        => calls[2].ret = calls[1].ret

\* C3 (amended): binarizing at t and then at any t' with 1 <= t' <= t gives
\* the buffer of the first binarization.
C3_IdempotentBelowFromOne ==
    (BothReturned /\ calls[2].threshold <= calls[1].threshold
                  /\ 1 <= calls[2].threshold)
        => calls[2].ret = calls[1].ret

C3_Witness ==
    /\ BothReturned
    /\ 1 <= calls[2].threshold
    /\ calls[2].threshold < calls[1].threshold
    /\ calls[2].ret = calls[1].ret
    /\ \E i, j \in 1..Len(out.bytes) : out.bytes[i] = 0 /\ out.bytes[j] = 255
    /\ out # image

\* C4: a transform that needs RGB (funcs[1] to funcs[5]), applied to an image
\* whose color type is not Rgb, panics: nothing is returned or written.
C4_ColorChecked ==
    (Len(calls) = 1 /\ calls[1].fn # "funcs[0]" /\ image.info.color # "Rgb")
        => (pc = "panic" /\ IsPanic(calls[1].ret) /\ out = NoImage /\ file = NoImage)

\* C5: with an 8-bit image read and a number outside the table, the run ends
\* in the error of funcs.get: no transform is applied, nothing is written.
C5_NoFunction ==
    (image # NoImage /\ image.info.depth = "Eight" /\ num >= FuncsLen)
        => /\ pc \in {"check_depth", "select", "exit"}
           /\ pc = "exit" => msg = NoFunctionMsg
           /\ trans = NoTrans /\ calls = << >>
           /\ out = NoImage /\ file = NoImage

C5_Witness ==
    /\ pc = "exit" /\ msg = NoFunctionMsg
    /\ num = 99
    /\ image # NoImage /\ image.info.depth = "Eight"
    /\ calls = << >> /\ file = NoImage

\* all the bytes are at one intensity
SingleLevel(bytes) == \A i, j \in 1..Len(bytes) : bytes[i] = bytes[j]

Funcs4Called == Len(calls) = 1 /\ calls[1].fn = "funcs[4]"

\* C6: when the grayscale buffer of funcs[4] is at a single intensity, the
\* transform panics with "Failed to find threshold": no threshold is chosen,
\* no image is returned or written.
C6_NoThreshold ==
    (Funcs4Called /\ gray # NoImage /\ SingleLevel(gray.bytes))
        => /\ pc = "panic" /\ msg = NoThreshold
           /\ best_thres = NoThres
           /\ out = NoImage /\ file = NoImage

C6_Witness ==
    /\ Funcs4Called /\ gray # NoImage /\ SingleLevel(gray.bytes)
    /\ Len(gray.bytes) > 1
    /\ pc = "panic" /\ msg = NoThreshold

\* C7: the image a transform returns for an Rgb image has the width and the
\* height of the input and width * height * samples bytes for its own color
\* type; funcs[2..4] return Grayscale and a third of the bytes, funcs[0],
\* funcs[1] and funcs[5] return Rgb and as many bytes.
C7_BufferMatchesInfo ==
    (out # NoImage /\ image.info.color = "Rgb")
        => /\ out.info.width = image.info.width
           /\ out.info.height = image.info.height
           /\ out.info.color \in {"Rgb", "Grayscale"}
           /\ Len(out.bytes) = out.info.width * out.info.height * Samples(out.info.color)
           /\ trans \in {2, 3, 4} =>
                 /\ out.info.color = "Grayscale"
                 /\ 3 * Len(out.bytes) = Len(image.bytes)
           /\ trans \in {0, 1, 5} =>
                 /\ out.info.color = "Rgb"
                 /\ Len(out.bytes) = Len(image.bytes)

C7_Witness ==
    /\ pc = "done" /\ trans = 4
    /\ image.info.color = "Rgb" /\ image.info.width * image.info.height = 3
    /\ file.info.color = "Grayscale" /\ Len(file.bytes) = 3

\* C8: with an image read whose bit depth is not Eight, the run ends in the
\* bit depth error before funcs.get: no transform is looked up or applied
\* and nothing is written, whatever the number.
C8_DepthRejected ==
    (image # NoImage /\ image.info.depth # "Eight")
        => /\ pc \in {"check_depth", "exit"}
           /\ pc = "exit" => msg = DepthMsg
           /\ trans = NoTrans /\ calls = << >>
           /\ out = NoImage /\ file = NoImage

C8_Witness ==
    /\ pc = "exit" /\ msg = DepthMsg
    /\ image.info.depth = "Sixteen"
    /\ num \in 0..(FuncsLen - 1)
    /\ calls = << >>

\* the pixels of b are those of a with the first and third byte exchanged
Swapped(a, b) ==
    /\ Len(b) = Len(a)
    /\ \A k \in 1..(Len(a) \div 3) :
          /\ b[3 * k - 2] = a[3 * k]
          /\ b[3 * k - 1] = a[3 * k - 1]
          /\ b[3 * k] = a[3 * k - 2]

\* C9: on an Rgb image, one application of funcs[1] turns each pixel
\* (r, g, b) into (b, g, r) and keeps the Info; a second application gives
\* back the bytes and the Info of the original.
C9_SwapTwice ==
    image.info.color = "Rgb" =>
        /\ \A k \in 1..Len(calls) : ~IsPanic(calls[k].ret)
        /\ Len(calls) >= 1 =>
              /\ calls[1].ret.info = image.info
              /\ Swapped(image.bytes, calls[1].ret.bytes)
        /\ Len(calls) = 2 => (calls[2].ret = image /\ out = image)

C9_Witness ==
    /\ Len(calls) = 2 /\ out = image
    /\ image.info.color = "Rgb"
    /\ calls[1].ret # image

\* C10: when funcs[4] returns, the threshold it chose is in 1..=255 and the
\* returned buffer has a byte 0 and a byte 255.
C10_BothClasses ==
    (Funcs4Called /\ ~IsPanic(calls[1].ret))
        => /\ best_thres \in 1..255
           /\ calls[1].threshold = best_thres
           /\ \E i \in 1..Len(out.bytes) : out.bytes[i] = 0
           /\ \E i \in 1..Len(out.bytes) : out.bytes[i] = 255
           /\ \A i \in 1..Len(out.bytes) : out.bytes[i] \in {0, 255}

C10_Witness ==
    /\ Funcs4Called /\ pc = "done"
    /\ best_thres \in 1..255
    /\ \E i, j \in 1..Len(file.bytes) : file.bytes[i] = 0 /\ file.bytes[j] = 255

====
